---- MODULE Spec2Model ----
(***************************************************************************)
(* Model of packages/connect-web/src/connect-transport.ts: the gRPC-web    *)
(* client transport for unary calls.                                       *)
(*                                                                         *)
(* One call is modelled: the fetch promise made by createRequest.send, the *)
(* ClientResponse made by createResponse with its flags isReading, isRead  *)
(* and readFrame, the frame reader made by createFrameReader with its      *)
(* shared buffer, and up to MaxReceive invocations of receive(), each with *)
(* a handler of its own.                                                   *)
(*                                                                         *)
(* JavaScript runs every callback to completion, so an action is one       *)
(* synchronous run: from the start of a callback to its end, and inside an *)
(* async function from one await to the next.                              *)
(*                                                                         *)
(* Bytes are the numbers 0..255 and a Uint8Array or a string is a sequence *)
(* of them.  An optional value (T | undefined, T | null, NaN) is a         *)
(* sequence of length at most one: <<>> is the missing value.              *)
(***************************************************************************)
EXTENDS Integers, Sequences, FiniteSets, TLC

\* ------------------------------------------------------------------ bounds
\* receive() invocations made on the ClientResponse of the call
MaxReceive == 3
\* longest message payload of a well-formed response body
MaxPayload == 2
\* longest arbitrary (not necessarily well-formed) response body
MaxRaw == 5
\* empty chunks the body stream may deliver
MaxEmpty == 1
\* the longest grpc-status value
MaxStatusLen == 3

\* --------------------------------------------------------- frame constants
\* enum FrameType
DATA == 0
TRAILER == 128
\* a frame's header: the type byte and the four length bytes
HeaderLen == 5

\* ------------------------------------------------------- JavaScript numbers
\* Numbers here are 32-bit integers, as are the operands of the bitwise
\* operators of JavaScript.
Pow2(n) == 2 ^ n

\* x << 8 for a 32-bit x: the low 24 bits move up and the result is read as
\* a signed 32-bit number
Shl8(x) ==
    LET low == x % Pow2(24)
    IN  IF low >= Pow2(23) THEN (low - Pow2(24)) * 256 ELSE low * 256

Min(a, b) == IF a < b THEN a ELSE b
Max(a, b) == IF a > b THEN a ELSE b

\* a relative index of TypedArray.prototype.subarray, clamped to 0..len
Clamp(k, len) == IF k < 0 THEN Max(len + k, 0) ELSE Min(k, len)

\* buf.subarray(begin, end), begin and end as in JavaScript (0-based)
subarray(buf, begin, end) ==
    LET b == Clamp(begin, Len(buf))
        e == Clamp(end, Len(buf))
    IN  IF e > b THEN SubSeq(buf, b + 1, e) ELSE <<>>

\* buf.subarray(begin)
subarrayFrom(buf, begin) == subarray(buf, begin, Len(buf))

\* --------------------------------------------------------------- encoding
\* createRequest.send: the DATA frame of a message of `data` bytes.  The
\* loop writes dataLength % 256 into body[4], body[3], body[2], body[1],
\* shifting dataLength right by 8 bits (unsigned) each time.
encodeDataFrame(data) ==
    LET n == Len(data)
    IN  << DATA,
           (n \div Pow2(24)) % 256,
           (n \div Pow2(16)) % 256,
           (n \div Pow2(8)) % 256,
           n % 256 >> \o data

\* The TRAILER frame a server writes: type byte, length, payload.
trailerFrame(text) ==
    LET n == Len(text)
    IN  << TRAILER,
           (n \div Pow2(24)) % 256,
           (n \div Pow2(16)) % 256,
           (n \div Pow2(8)) % 256,
           n % 256 >> \o text

\* ------------------------------------------------------------ frame reader
\* The state of one execution of readFrame() between two awaits: `at` is
\* the await it is suspended at ("readFrame", "readDataFrame",
\* "readTrailerFrame") and dataLength the local of readDataFrame
\* (<<>> while undefined).  `out` is <<>> while the execution is suspended
\* and holds the frame once it has returned.
Suspended(buf, at, dataLength) ==
    [buffer |-> buf, at |-> at, dataLength |-> dataLength, out |-> <<>>]

Returned(buf, type, data) ==
    [buffer |-> buf, at |-> "returned", dataLength |-> <<>>,
     out |-> << [type |-> type, data |-> data] >>]

\* readDataFrame, lines 336-341: the declared length, parsed from bytes 1..4
\* with dataLength = (dataLength << 8) + buffer[i]
parseLength(buf) ==
    Shl8(Shl8(Shl8(Shl8(0) + buf[2]) + buf[3]) + buf[4]) + buf[5]

\* readDataFrame, line 342: the loop ends when this holds
dataComplete(buf, dataLength) == Len(buf) >= dataLength

\* readDataFrame from the top of its loop to the next await or the return
readDataFrame(buf, dataLength) ==
    LET dl == IF dataLength = <<>> /\ Len(buf) >= HeaderLen
              THEN << parseLength(buf) >>
              ELSE dataLength
    IN  IF dl # <<>> /\ dataComplete(buf, dl[1])
        THEN Returned(subarrayFrom(buf, HeaderLen + dl[1]), DATA,
                      subarray(buf, HeaderLen, HeaderLen + dl[1]))
        ELSE Suspended(buf, "readDataFrame", dl)

\* the payload cut at the declared length, the bytes after it kept
readTrailerFrameDeclared(buf) ==
    LET n == IF Len(buf) >= HeaderLen THEN parseLength(buf) ELSE 0
    IN  Returned(subarrayFrom(buf, HeaderLen + n), TRAILER,
                 subarray(buf, HeaderLen, HeaderLen + n))

\* readTrailerFrame once its reader.read() reports done
readTrailerFrame(buf) == Returned(<<>>, TRAILER, subarrayFrom(buf, HeaderLen))

\* a first byte that is not TRAILER read as the header of a DATA frame
readFrameAnyData(buf) ==
    IF Len(buf) > 0 /\ buf[1] = TRAILER
    THEN Suspended(buf, "readTrailerFrame", <<>>)
    ELSE IF Len(buf) > 0 THEN readDataFrame(buf, <<>>)
         ELSE Suspended(buf, "readFrame", <<>>)

\* readFrame from the top of its loop to the next await or the return
readFrame(buf) ==
    IF Len(buf) > 0 /\ buf[1] = DATA THEN readDataFrame(buf, <<>>)
    ELSE IF Len(buf) > 0 /\ buf[1] = TRAILER
         THEN Suspended(buf, "readTrailerFrame", <<>>)
         ELSE Suspended(buf, "readFrame", <<>>)

\* append(chunk)
append(buf, chunk) == buf \o chunk

\* The execution suspended at `at` resumes with a chunk: append, then on to
\* the next await or the return.
resumeChunk(buf, at, dataLength, chunk) ==
    LET b == append(buf, chunk)
    IN  CASE at = "readFrame" -> readFrame(b)
          [] at = "readDataFrame" -> readDataFrame(b, dataLength)
          [] OTHER -> Suspended(b, "readTrailerFrame", <<>>)

\* ------------------------------------------------------------------ strings
\* Header names and the base64 text of a Status are abbreviated: one letter
\* stands for the whole name.
GrpcStatus == << 115 >>
GrpcMessage == << 109 >>
GrpcStatusDetailsBin == << 100 >>

Colon == 58
CRLF == << 13, 10 >>
CommaSpace == << 44, 32 >>
Percent == 37
Digit0 == 48

\* String.prototype.trim: the white space among the bytes
IsSpace(c) == c \in {9, 10, 11, 12, 13, 32, 160}

RECURSIVE trimStart(_)
trimStart(s) ==
    IF s # <<>> /\ IsSpace(s[1]) THEN trimStart(Tail(s)) ELSE s

RECURSIVE trimEnd(_)
trimEnd(s) ==
    IF s # <<>> /\ IsSpace(s[Len(s)])
    THEN trimEnd(SubSeq(s, 1, Len(s) - 1))
    ELSE s

trim(s) == trimEnd(trimStart(s))

\* line.indexOf(c): 0-based, -1 when c does not occur
indexOf(s, c) ==
    IF \E k \in 1..Len(s) : s[k] = c
    THEN (CHOOSE k \in 1..Len(s) : s[k] = c /\ \A j \in 1..(k - 1) : s[j] # c) - 1
    ELSE -1

\* s.split("\r\n")
RECURSIVE splitCRLF(_)
splitCRLF(s) ==
    LET at == {k \in 1..(Len(s) - 1) : SubSeq(s, k, k + 1) = CRLF}
    IN  IF at = {} THEN << s >>
        ELSE LET k == CHOOSE x \in at : \A y \in at : x <= y
             IN  << SubSeq(s, 1, k - 1) >> \o splitCRLF(SubSeq(s, k + 2, Len(s)))

\* ------------------------------------------------------------------ Headers
\* A Headers object is the sequence of its (name, value) entries.
lowerCase(s) ==
    [k \in 1..Len(s) |-> IF s[k] \in 65..90 THEN s[k] + 32 ELSE s[k]]

\* the bytes of an HTTP token: what a header name may hold
IsTokenChar(c) ==
    \/ c \in 48..57
    \/ c \in 65..90
    \/ c \in 97..122
    \/ c \in {33, 35, 36, 37, 38, 39, 42, 43, 45, 46, 94, 95, 96, 124, 126}

validName(name) == name # <<>> /\ \A k \in 1..Len(name) : IsTokenChar(name[k])
validValue(value) == \A k \in 1..Len(value) : value[k] \notin {0, 10, 13}

\* Headers.prototype.append; the caller checks validName and validValue
headersAppend(h, name, value) == Append(h, << lowerCase(name), value >>)

\* Headers.prototype.get: the values of the name joined by ", ", or null
RECURSIVE joinValues(_, _)
joinValues(h, name) ==
    IF h = <<>> THEN <<>>
    ELSE LET rest == joinValues(Tail(h), name)
         IN  IF h[1][1] # name THEN rest
             ELSE IF rest = <<>> THEN << h[1][2] >>
             ELSE << h[1][2] \o CommaSpace \o rest[1] >>

headersGet(h, name) == joinValues(h, lowerCase(name))

\* --------------------------------------------------------------- StatusCode
Ok == 0
Unknown == 2
PermissionDenied == 7
Unimplemented == 12
Internal == 13
Unavailable == 14
DataLoss == 15
Unauthenticated == 16

\* StatusCode[code] !== undefined
isStatusCode(code) == code \in 0..16

\* codeFromHttpStatus
codeFromHttpStatus(status) ==
    CASE status = 200 -> Ok
      [] status = 400 -> Internal
      [] status = 401 -> Unauthenticated
      [] status = 403 -> PermissionDenied
      [] status = 404 -> Unimplemented
      [] status \in {429, 502, 503, 504} -> Unavailable
      [] OTHER -> Unknown

\* ------------------------------------------------------------- ConnectError
\* The code a ConnectError gets when the constructor is given none.
DefaultCode == Unknown

\* new ConnectError(message, code): the message is a fixed text followed by
\* a value taken from the input.
ConnectError(text, arg, code) == [text |-> text, arg |-> arg, code |-> code]

\* a ?? b
Coalesce(a, b) == IF a # <<>> THEN a ELSE b

\* ------------------------------------------------------------ header codecs
hexValue(c) ==
    IF c \in 48..57 THEN c - 48
    ELSE IF c \in 65..70 THEN c - 55
    ELSE IF c \in 97..102 THEN c - 87
    ELSE -1

\* percentDecodeHeader: every %HH becomes the byte HH
RECURSIVE percentDecodeHeader(_)
percentDecodeHeader(s) ==
    IF s = <<>> THEN <<>>
    ELSE IF /\ s[1] = Percent
            /\ Len(s) >= 3
            /\ hexValue(s[2]) >= 0
            /\ hexValue(s[3]) >= 0
         THEN << 16 * hexValue(s[2]) + hexValue(s[3]) >>
                  \o percentDecodeHeader(SubSeq(s, 4, Len(s)))
         ELSE << s[1] >> \o percentDecodeHeader(Tail(s))

\* parseBinaryHeader(value, Status): the Status message in the base64 text,
\* or <<>> when the text does not parse (the source's exception).  The
\* abbreviated text is one letter for the code ('A' for 0, 'B' for 1, ...)
\* followed by the message.
parseBinaryHeader(value) ==
    IF value # <<>> /\ value[1] \in 65..81
    THEN << [code |-> value[1] - 65, message |-> Tail(value)] >>
    ELSE <<>>

\* parseInt(value): <<>> is NaN
RECURSIVE digitsValue(_, _, _)
digitsValue(s, radix, acc) ==
    IF s # <<>> /\ hexValue(s[1]) >= 0 /\ hexValue(s[1]) < radix
    THEN digitsValue(Tail(s), radix, acc * radix + hexValue(s[1]))
    ELSE acc

parseInt(value) ==
    LET t == trimStart(value)
        neg == t # <<>> /\ t[1] = 45
        u == IF t # <<>> /\ t[1] \in {43, 45} THEN Tail(t) ELSE t
        hex == Len(u) >= 2 /\ u[1] = Digit0 /\ u[2] \in {88, 120}
        radix == IF hex THEN 16 ELSE 10
        d == IF hex THEN SubSeq(u, 3, Len(u)) ELSE u
        n == digitsValue(d, radix, 0)
    IN  IF d = <<>> \/ hexValue(d[1]) < 0 \/ hexValue(d[1]) >= radix
        THEN <<>>
        ELSE << IF neg THEN 0 - n ELSE n >>

\* ---------------------------------------------------------- error extractor
extractHttpStatusError(status, headers) ==
    LET code == codeFromHttpStatus(status)
    IN  IF code = Ok THEN <<>>
        ELSE << ConnectError("",
                  percentDecodeHeader(
                      Coalesce(headersGet(headers, GrpcMessage), << <<>> >>)[1]),
                  code) >>

\* a map without grpc-status taken for an invalid status
extractHeadersErrorStrict(header) ==
    LET value == headersGet(header, GrpcStatus)
    IN  IF value = <<>>
        THEN << ConnectError("invalid grpc-status: ", <<>>, DataLoss) >>
        ELSE IF parseInt(value[1]) = << Ok >> THEN <<>>
        ELSE << ConnectError("invalid grpc-status: ", value[1], DataLoss) >>

extractHeadersError(header) ==
    LET value == headersGet(header, GrpcStatus)
        code == parseInt(value[1])
    IN  IF value = <<>> THEN <<>>
        ELSE IF code = << Ok >> THEN <<>>
        ELSE IF code = <<>> \/ ~isStatusCode(code[1])
             THEN << ConnectError("invalid grpc-status: ", value[1], DataLoss) >>
             ELSE << ConnectError("",
                       percentDecodeHeader(
                           Coalesce(headersGet(header, GrpcMessage), << <<>> >>)[1]),
                       code[1]) >>

extractDetailsError(header) ==
    LET grpcStatusDetailsBin == headersGet(header, GrpcStatusDetailsBin)
        status == parseBinaryHeader(grpcStatusDetailsBin[1])
    IN  IF grpcStatusDetailsBin = <<>> THEN <<>>
        ELSE IF status = <<>>
             THEN << ConnectError("invalid grpc-status-details-bin", <<>>,
                                  DefaultCode) >>
        ELSE IF status[1].code = Ok THEN <<>>
        ELSE << ConnectError("", status[1].message, status[1].code) >>

\* the textual status consulted before the binary details
headerErrorTextFirst(status, headers) ==
    Coalesce(extractHeadersError(headers),
        Coalesce(extractDetailsError(headers),
            extractHttpStatusError(status, headers)))

\* the error at response-header arrival (receive, lines 169-172)
headerError(status, headers) ==
    Coalesce(extractDetailsError(headers),
        Coalesce(extractHeadersError(headers),
            extractHttpStatusError(status, headers)))

\* the trailer's status ignored: close() without an error
trailerErrorNone(trailer) == <<>>

\* the error at trailer arrival (receive, line 210)
trailerError(trailer) ==
    Coalesce(extractDetailsError(trailer), extractHeadersError(trailer))

\* ----------------------------------------------------------- trailer parser
\* parseTrailerFrame: [ok |-> TRUE, headers |-> h], or ok = FALSE when
\* headers.append throws (a name or a value the Headers object refuses).
RECURSIVE parseLines(_, _)
parseLines(lines, h) ==
    IF lines = <<>> THEN [ok |-> TRUE, headers |-> h]
    ELSE LET line == lines[1]
             i == indexOf(line, Colon)
             name == trim(SubSeq(line, 1, i))
             value == trim(SubSeq(line, i + 2, Len(line)))
         IN  IF line = <<>> \/ i <= 0 THEN parseLines(Tail(lines), h)
             ELSE IF ~validName(name) \/ ~validValue(value)
                  THEN [ok |-> FALSE, headers |-> h]
                  ELSE parseLines(Tail(lines), headersAppend(h, name, value))

parseTrailerFrame(data) == parseLines(splitCRLF(data), <<>>)

\* -------------------------------------------------------------------- state
VARIABLES
    caller,       \* how the caller invokes receive(): [sequential, frames]
    fetchState,   \* the promise of createRequest: "idle" before send(),
                  \* then "pending", then "resolved" or "rejected"
    response,     \* the Response it resolved with: status, headers, body
    rejection,    \* the reason it rejected with
    rest,         \* the bytes of the body the stream has not yet delivered
    emptyLeft,    \* the empty chunks the stream may still deliver
    aborted,      \* the abort signal fired after the response arrived
    isReading,    \* createResponse: let isReading
    isRead,       \* createResponse: let isRead
    frameReader,  \* createResponse: readFrame !== undefined
    buffer,       \* createFrameReader: let buffer
    inv,          \* per receive() invocation: where it is
    waiters,      \* invocations whose then() on the response is pending
    reads,        \* invocations whose reader.read() is pending, oldest first
    log           \* the receive() invocations made and the handler
                  \* callbacks delivered so far, in order

vars == << caller, fetchState, response, rejection, rest, emptyLeft, aborted, isReading,
           isRead, frameReader, buffer, inv, waiters, reads, log >>

Invocations == 1..MaxReceive

\* An invocation: pc is "idle" (not yet invoked), "awaitResponse",
\* "awaitRead" (its readFrame() is suspended at `at`), "awaitFrame" (its
\* readFrame() has settled with the frame `out` or the rejection `err`) or
\* "done".
Invocation(pc, at, dataLength, out, err) ==
    [pc |-> pc, at |-> at, dataLength |-> dataLength, out |-> out, err |-> err]

Idle == Invocation("idle", "", <<>>, <<>>, <<>>)
Done == Invocation("done", "", <<>>, <<>>, <<>>)

\* one entry of the log: receive() invocation h is made ("receive"), or a
\* callback of its handler is delivered with its argument
Callback(h, cb, data, headers, error) ==
    [h |-> h, cb |-> cb, data |-> data, headers |-> headers, error |-> error]

received(h) == Callback(h, "receive", <<>>, <<>>, <<>>)
onHeader(h, headers) == Callback(h, "onHeader", <<>>, headers, <<>>)
onMessage(h, data) == Callback(h, "onMessage", data, <<>>, <<>>)
onTrailer(h, trailer) == Callback(h, "onTrailer", <<>>, trailer, <<>>)
onClose(h, error) == Callback(h, "onClose", <<>>, <<>>, error)

\* ------------------------------------------------------------------- inputs
GrpcStatus5 == << << GrpcStatus, << 53 >> >>, << GrpcMessage, << 120 >> >> >>
GrpcStatus0 == << << GrpcStatus, << Digit0 >> >> >>
Details7Status2 ==
    << << GrpcStatusDetailsBin, << 72, 121 >> >>, << GrpcStatus, << 50 >> >> >>
Details0Status5 ==
    << << GrpcStatusDetailsBin, << 65 >> >>, << GrpcStatus, << 53 >> >> >>
DetailsInvalid == << << GrpcStatusDetailsBin, << 33 >> >> >>

\* response headers the server may send
HeaderMaps ==
    { <<>>, GrpcStatus0, GrpcStatus5, Details7Status2, Details0Status5,
      DetailsInvalid }

\* trailer texts the server may send
TrailerTexts ==
    { <<>>,
      << 115, Colon, Digit0 >> \o CRLF,
      << 115, Colon, 32, 53 >> \o CRLF \o << 109, Colon, 120 >> \o CRLF,
      << 115, Colon, 57, 57, 57 >> \o CRLF,
      << 100, Colon, 72, 121 >> \o CRLF \o << 115, Colon, 50 >> \o CRLF,
      \* a line whose name is blank: headers.append refuses it
      << 32, Colon, 53 >> \o CRLF }

PayloadBytes == {1, 2}

RECURSIVE SeqsUpTo(_, _)
SeqsUpTo(S, n) ==
    IF n = 0 THEN { <<>> }
    ELSE LET shorter == SeqsUpTo(S, n - 1)
         IN  shorter \cup { Append(s, x) : s \in shorter, x \in S }

Payloads == SeqsUpTo(PayloadBytes, MaxPayload)

\* DATA frame then TRAILER frame
WellFormedBodies ==
    { encodeDataFrame(p) \o trailerFrame(t) : p \in Payloads, t \in TrailerTexts }

\* a response that carries only a trailer frame
TrailerBodies ==
    { trailerFrame(t) : t \in TrailerTexts }
    \* the length field says 1 whatever follows
    \cup { << TRAILER, 0, 0, 0, 1 >> \o t : t \in TrailerTexts }

\* grpc-status values the server may send: digits and a letter
StatusChars == {Digit0, 53, 57, 120}
StatusValues == SeqsUpTo(StatusChars, MaxStatusLen) \ { <<>> }

\* a trailer frame carrying each of these values
StatusBodies ==
    { trailerFrame(GrpcStatus \o << Colon >> \o v \o CRLF) : v \in StatusValues }

\* any bytes at all
RawBytes == {DATA, 1, TRAILER}
RawBodies == SeqsUpTo(RawBytes, MaxRaw)

\* bodies whose first byte starts no frame
UnframedBodies == { b \in RawBodies : b # <<>> /\ b[1] \notin {DATA, TRAILER} }

\* the bodies of the calls whose receive() invocations may overlap
LifecycleBodies ==
    { encodeDataFrame(<< 1 >>) \o trailerFrame(<<>>),
      trailerFrame(<< 115, Colon, 53 >> \o CRLF),
      encodeDataFrame(<< 1 >>) \o encodeDataFrame(<< 2 >>),
      << DATA, 0, 0, 0, 2, 1 >>,
      <<>> }

Response(status, headers, body, bytes) ==
    [status |-> status, headers |-> headers, body |-> body, bytes |-> bytes]

NoResponse == Response(0, <<>>, "null", <<>>)

\* what fetch may resolve with
Responses(c) ==
    { Response(200, <<>>, "stream", b) :
        b \in IF c.unframed THEN UnframedBodies \cup LifecycleBodies
              ELSE IF c.frames
              THEN WellFormedBodies \cup TrailerBodies \cup StatusBodies
                   \cup RawBodies
              ELSE LifecycleBodies }
    \cup { Response(st, h, "stream", encodeDataFrame(<< 1 >>) \o trailerFrame(<<>>)) :
             st \in {200, 401, 500}, h \in HeaderMaps }
    \cup { Response(200, <<>>, b, <<>>) : b \in {"null", "locked"} }

\* -------------------------------------------------------------------- Init
InitWith(c) ==
    /\ caller = c
    /\ fetchState = "idle"
    /\ response = NoResponse
    /\ rejection = ""
    /\ rest = <<>>
    /\ emptyLeft = IF c.frames THEN MaxEmpty ELSE 0
    /\ aborted = FALSE
    /\ isReading = FALSE
    /\ isRead = FALSE
    /\ frameReader = FALSE
    /\ buffer = <<>>
    /\ inv = [i \in Invocations |-> Idle]
    /\ waiters = <<>>
    /\ reads = <<>>
    /\ log = <<>>

\* any caller, a few bodies
Init == InitWith([sequential |-> FALSE, frames |-> FALSE, unframed |-> FALSE])

\* a caller that waits for one receive() to finish before the next, any body
InitFrames ==
    InitWith([sequential |-> TRUE, frames |-> TRUE, unframed |-> FALSE])

\* the same caller, bodies that start no frame
InitUnframed ==
    InitWith([sequential |-> TRUE, frames |-> TRUE, unframed |-> TRUE])

\* ------------------------------------------------------------------ actions
\* close() reached a second time for the same handler (as it would be were
\* it called in the callback and again by the catch after it)
closedTwice(i, error, callbacks) ==
    /\ isRead' = TRUE
    /\ isReading' = FALSE
    /\ log' = log \o callbacks \o << onClose(i, error), onClose(i, error) >>
    /\ inv' = [inv EXCEPT ![i] = Done]

\* close() without line 147: isRead stays as it is
closedWithoutIsRead(i, error, callbacks) ==
    /\ UNCHANGED isRead
    /\ isReading' = FALSE
    /\ log' = log \o callbacks \o << onClose(i, error) >>
    /\ inv' = [inv EXCEPT ![i] = Done]

\* close(reason) of receive(), lines 146-156, for invocation i: `error` is
\* the ConnectError handed to handler.onClose
closed(i, error, callbacks) ==
    /\ isRead' = TRUE
    /\ isReading' = FALSE
    /\ log' = log \o callbacks \o << onClose(i, error) >>
    /\ inv' = [inv EXCEPT ![i] = Done]

\* String(reason) wrapped by close(): new ConnectError(String(reason))
stringError(text) == << ConnectError(text, <<>>, DefaultCode) >>

\* createRequest.send: fetch is called
send ==
    /\ fetchState = "idle"
    /\ fetchState' = "pending"
    /\ UNCHANGED << caller, response, rejection, rest, emptyLeft, aborted,
                    isReading, isRead, frameReader, buffer, inv, waiters,
                    reads, log >>

\* fetch resolves: .then(resolveResponse)
fetchResolve ==
    /\ fetchState = "pending"
    /\ \E r \in Responses(caller) :
        /\ response' = r
        /\ rest' = r.bytes
    /\ fetchState' = "resolved"
    /\ UNCHANGED << caller, rejection, emptyLeft, aborted, isReading, isRead,
                    frameReader, buffer, inv, waiters, reads, log >>

\* fetch rejects: .catch(rejectResponse)
fetchReject ==
    /\ fetchState = "pending"
    /\ fetchState' = "rejected"
    /\ rejection' = "TypeError: Failed to fetch"
    /\ UNCHANGED << caller, response, rest, emptyLeft, aborted, isReading,
                    isRead, frameReader, buffer, inv, waiters, reads, log >>

\* the abort signal given to fetch fires: a pending fetch rejects, the body
\* stream of an arrived response is errored
abort ==
    /\ ~aborted
    /\ \/ /\ fetchState = "pending"
          /\ fetchState' = "rejected"
          /\ rejection' = "AbortError"
          /\ UNCHANGED aborted
       \/ /\ fetchState = "resolved"
          /\ response.body = "stream"
          /\ aborted' = TRUE
          /\ UNCHANGED << fetchState, rejection >>
    /\ UNCHANGED << caller, response, rest, emptyLeft, isReading, isRead,
                    frameReader, buffer, inv, waiters, reads, log >>

\* the check of line 157 left out
alreadyReadNever == FALSE

\* receive(), line 157
alreadyRead == isRead

\* receive(), line 161
readingNow == isReading

\* receive(handler), lines 145-165 and 218: the synchronous part
receive(i) ==
    /\ inv[i].pc = "idle"
    /\ \A j \in 1..(i - 1) :
          IF caller.sequential THEN inv[j].pc = "done" ELSE inv[j].pc # "idle"
    /\ IF alreadyRead
       THEN /\ closed(i, stringError("response already read"), << received(i) >>)
            /\ UNCHANGED waiters
       ELSE IF readingNow
       THEN /\ closed(i, stringError("cannot read response concurrently"),
                      << received(i) >>)
            /\ UNCHANGED waiters
       ELSE /\ inv' = [inv EXCEPT ![i].pc = "awaitResponse"]
            /\ waiters' = Append(waiters, i)
            /\ log' = Append(log, received(i))
            /\ UNCHANGED << isRead, isReading >>
    /\ UNCHANGED << caller, fetchState, response, rejection, rest, emptyLeft,
                    aborted, frameReader, buffer, reads >>

\* the check of line 173 left out: the error is dropped
hasErrorNever(err) == FALSE

\* receive(), line 173: if (err)
hasError(err) == err # <<>>

\* readFrame() is called (line 189) and runs to its first await or its
\* return; `callbacks` are the handler callbacks made before it
startRead(i, buf, callbacks) ==
    LET r == readFrame(buf)
    IN  /\ isReading' = TRUE
        /\ buffer' = r.buffer
        /\ log' = log \o callbacks
        /\ IF r.out = <<>>
           THEN /\ inv' = [inv EXCEPT ![i] =
                              Invocation("awaitRead", r.at, r.dataLength, <<>>, <<>>)]
                /\ reads' = Append(reads, i)
           ELSE /\ inv' = [inv EXCEPT ![i] =
                              Invocation("awaitFrame", "", <<>>, r.out, <<>>)]
                /\ UNCHANGED reads
        /\ UNCHANGED isRead

\* the callback of Promise.resolve(response).then, lines 166-189
onResponse(i) ==
    /\ fetchState = "resolved"
    /\ waiters # <<>>
    /\ i = Head(waiters)
    /\ waiters' = Tail(waiters)
    /\ IF frameReader
       THEN /\ startRead(i, buffer, <<>>)
            /\ UNCHANGED frameReader
       ELSE LET header == << onHeader(i, response.headers) >>
                err == headerError(response.status, response.headers)
            IN  IF hasError(err)
                THEN /\ closed(i, err, header)
                     /\ UNCHANGED << frameReader, buffer, reads >>
                ELSE IF response.body = "null"
                THEN /\ closed(i, stringError("missing response body"), header)
                     /\ UNCHANGED << frameReader, buffer, reads >>
                ELSE IF response.body = "locked"
                THEN /\ closed(i,
                          stringError("failed to get response body reader: "),
                          header)
                     /\ UNCHANGED << frameReader, buffer, reads >>
                ELSE /\ frameReader' = TRUE
                     /\ startRead(i, <<>>, header)
    /\ UNCHANGED << caller, fetchState, response, rejection, rest, emptyLeft,
                    aborted >>

\* the outer .catch(close), line 218: the response promise rejected
onRejected(i) ==
    /\ fetchState = "rejected"
    /\ waiters # <<>>
    /\ i = Head(waiters)
    /\ waiters' = Tail(waiters)
    /\ closed(i, stringError(rejection), <<>>)
    /\ UNCHANGED << caller, fetchState, response, rejection, rest, emptyLeft,
                    aborted, frameReader, buffer, reads >>

PrematureEnd ==
    << ConnectError("premature end of response body", <<>>, DataLoss) >>

\* the oldest pending reader.read() settles and the readFrame() execution
\* awaiting it runs on to its next await, its return or its throw
read ==
    /\ reads # <<>>
    /\ LET i == Head(reads)
           at == inv[i].at
           settle(out, err) ==
               /\ inv' = [inv EXCEPT ![i] =
                             Invocation("awaitFrame", "", <<>>, out, err)]
               /\ reads' = Tail(reads)
           chunk(n) ==
               LET r == resumeChunk(buffer, at, inv[i].dataLength,
                                    SubSeq(rest, 1, n))
               IN  /\ rest' = SubSeq(rest, n + 1, Len(rest))
                   /\ buffer' = r.buffer
                   /\ IF r.out = <<>>
                      THEN /\ inv' = [inv EXCEPT ![i] =
                                 Invocation("awaitRead", r.at, r.dataLength,
                                            <<>>, <<>>)]
                           /\ reads' = Append(Tail(reads), i)
                      ELSE settle(r.out, <<>>)
       IN  IF aborted
           THEN \* the read rejects
                /\ settle(<<>>, stringError("AbortError"))
                /\ UNCHANGED << rest, emptyLeft, buffer >>
           ELSE \/ \E n \in 1..Len(rest) :
                      /\ chunk(n)
                      /\ UNCHANGED emptyLeft
                \/ /\ emptyLeft > 0
                   /\ emptyLeft' = emptyLeft - 1
                   /\ chunk(0)
                \/ \* result.done
                   /\ rest = <<>>
                   /\ IF at = "readTrailerFrame"
                      THEN LET r == readTrailerFrame(buffer)
                           IN  /\ buffer' = r.buffer
                               /\ settle(r.out, <<>>)
                      ELSE /\ settle(<<>>, PrematureEnd)
                           /\ UNCHANGED buffer
                   /\ UNCHANGED << rest, emptyLeft >>
    /\ UNCHANGED << caller, fetchState, response, rejection, aborted,
                    isReading, isRead, frameReader, waiters, log >>

\* the callback of readFrame().then, lines 190-215, with the .catch(close)
\* of line 216 for what it throws
onFrame(i) ==
    /\ inv[i].pc = "awaitFrame"
    /\ inv[i].out # <<>>
    /\ LET frame == inv[i].out[1]
           trailer == parseTrailerFrame(frame.data)
       IN  IF frame.type = DATA
           THEN \/ \* fromBinary returns and so does onMessage
                   /\ isReading' = FALSE
                   /\ log' = Append(log, onMessage(i, frame.data))
                   /\ inv' = [inv EXCEPT ![i] = Done]
                   /\ UNCHANGED isRead
                \/ \* fromBinary throws
                   closed(i, stringError("failed to deserialize message "), <<>>)
                \/ \* onMessage throws
                   closed(i, stringError("failed to deserialize message "),
                          << onMessage(i, frame.data) >>)
           ELSE IF trailer.ok
                THEN closed(i, trailerError(trailer.headers),
                            << onTrailer(i, trailer.headers) >>)
                ELSE \* headers.append throws, caught by .catch(close)
                     closed(i, stringError("TypeError"), <<>>)
    /\ UNCHANGED << caller, fetchState, response, rejection, rest, emptyLeft,
                    aborted, frameReader, buffer, waiters, reads >>

\* the rejection of readFrame() swallowed: nothing is delivered
onFrameErrorSwallowed(i) ==
    /\ inv[i].pc = "awaitFrame"
    /\ inv[i].err # <<>>
    /\ isReading' = FALSE
    /\ inv' = [inv EXCEPT ![i] = Done]
    /\ UNCHANGED << caller, fetchState, response, rejection, rest, emptyLeft,
                    aborted, isRead, frameReader, buffer, waiters, reads, log >>

\* the inner .catch(close), line 216: readFrame() rejected
onFrameError(i) ==
    /\ inv[i].pc = "awaitFrame"
    /\ inv[i].err # <<>>
    /\ closed(i, inv[i].err, <<>>)
    /\ UNCHANGED << caller, fetchState, response, rejection, rest, emptyLeft,
                    aborted, frameReader, buffer, waiters, reads >>

Next ==
    \/ send
    \/ fetchResolve
    \/ fetchReject
    \/ abort
    \/ read
    \/ \E i \in Invocations : receive(i)
    \/ \E i \in Invocations : onResponse(i)
    \/ \E i \in Invocations : onRejected(i)
    \/ \E i \in Invocations : onFrame(i)
    \/ \E i \in Invocations : onFrameError(i)

Spec == Init /\ [][Next]_vars

SpecFrames == InitFrames /\ [][Next]_vars

\* bodies that start no frame, on a stream that settles every pending
\* reader.read()
SpecUnframedFair == InitUnframed /\ [][Next]_vars /\ WF_vars(read)

\* ------------------------------------------------------------------- claims
\* the callbacks delivered in the call, in order
Delivered == SelectSeq(log, LAMBDA e : e.cb # "receive")

\* the callbacks delivered to the handler of invocation i, in order
CallbacksOf(i) == SelectSeq(log, LAMBDA e : e.h = i /\ e.cb # "receive")

Positions(cb) == {k \in 1..Len(log) : log[k].cb = cb}

Last(s) == s[Len(s)]

IsClose(e, text) ==
    e.cb = "onClose" /\ e.error # <<>> /\ e.error[1].text = text

AlreadyReadText == "response already read"
ConcurrentText == "cannot read response concurrently"

C2_CallbackSequence ==
    /\ Cardinality(Positions("onHeader")) <= 1
    /\ Cardinality(Positions("onMessage")) <= 1
    /\ Cardinality(Positions("onTrailer")) <= 1
    /\ \A m \in Positions("onMessage") :
          /\ \E h \in Positions("onHeader") : h < m
          /\ \A t \in Positions("onTrailer") : m < t

\* C3 as stated: whatever the first receive() delivered, the handler of the
\* second gets nothing but an on-close "response already read".
C3_SecondReceiveAlreadyRead ==
    \A k \in 1..Len(CallbacksOf(2)) : IsClose(CallbacksOf(2)[k], AlreadyReadText)

\* C3, amended: a second receive() invoked after the first has delivered its
\* on-close gets exactly one callback, on-close "response already read".
C3_SecondReceiveAfterClose ==
    (\E c \in Positions("onClose"), r \in Positions("receive") :
         log[c].h = 1 /\ log[r].h = 2 /\ c < r)
    => /\ Len(CallbacksOf(2)) = 1
       /\ IsClose(CallbacksOf(2)[1], AlreadyReadText)

\* the first receive() read a trailer and closed, then the second was made
C3_Witness ==
    /\ \E t \in Positions("onTrailer"), c \in Positions("onClose"),
          r \in Positions("receive") :
          log[t].h = 1 /\ log[c].h = 1 /\ log[r].h = 2 /\ t < c /\ c < r
    /\ Len(CallbacksOf(2)) = 1

\* C4: a receive() made once an on-close has been delivered adds exactly
\* its own on-close "response already read" and leaves the body stream, the
\* pending reads and the buffer alone; nothing more is delivered to its
\* handler afterwards.
C4_ReceiveAfterClose ==
    /\ [][\A i \in Invocations :
            (Positions("onClose") # {} /\ inv[i].pc = "idle" /\ inv'[i].pc # "idle")
            => /\ log' = log \o << received(i),
                                   onClose(i, stringError(AlreadyReadText)) >>
               /\ inv'[i].pc = "done"
               /\ reads' = reads
               /\ waiters' = waiters
               /\ rest' = rest
               /\ buffer' = buffer]_vars
    /\ [][\A i \in Invocations :
            inv[i].pc = "done" => CallbacksOf(i)' = CallbacksOf(i)]_vars

\* a trailer closed the response, a receive() after it was answered
\* "response already read", and so was another one after that
C4_Witness ==
    /\ Positions("onTrailer") # {}
    /\ \E i, j \in Invocations :
          /\ i # j
          /\ Len(CallbacksOf(i)) = 1 /\ IsClose(CallbacksOf(i)[1], AlreadyReadText)
          /\ Len(CallbacksOf(j)) = 1 /\ IsClose(CallbacksOf(j)[1], AlreadyReadText)

\* C5: a receive() made while an earlier receive() has not yet delivered its
\* frame (and the response is not closed) is answered at once with on-close
\* "cannot read response concurrently".
InFlightAt(k) ==
    /\ \A c \in Positions("onClose") : c > k
    /\ \E r \in Positions("receive") :
          /\ r < k
          /\ \A d \in 1..(k - 1) :
                ~(log[d].h = log[r].h /\ log[d].cb \in {"onMessage", "onTrailer"})

C5_ConcurrentReceiveCloses ==
    \A k \in Positions("receive") :
        InFlightAt(k) =>
            /\ k < Len(log)
            /\ log[k + 1].h = log[k].h
            /\ IsClose(log[k + 1], ConcurrentText)

\* C6: at most one read on the stream reader is in flight.
C6_OneReadInFlight == Len(reads) <= 1

\* C7: when the body is encodeDataFrame(p) followed by trailerFrame(t), the
\* first readFrame() call that returns a frame returns DATA with payload p
\* and the second TRAILER with payload t, however the stream cuts the body
\* into chunks.
C7_RoundTrip ==
    \A p \in Payloads, t \in TrailerTexts :
        (response.body = "stream"
            /\ response.bytes = encodeDataFrame(p) \o trailerFrame(t))
        => /\ inv[1].out # <<>> => inv[1].out[1] = [type |-> DATA, data |-> p]
           /\ inv[2].out # <<>> => inv[2].out[1] = [type |-> TRAILER, data |-> t]

\* the length a DATA header declares: bytes 1..4, big-endian, unsigned;
\* DeclaresHuge when it is 2^31 or more
DeclaresHuge(b) == b[2] >= 128
DeclaredLength(b) == ((b[2] * 256 + b[3]) * 256 + b[4]) * 256 + b[5]

\* C8: a body that starts with a DATA header declaring L bytes yields a DATA
\* frame of exactly the L bytes after the header; when the body ends before
\* byte 5 + L the first readFrame() returns no frame, fails with DataLoss
\* "premature end of response body", and no on-message is delivered.
C8_PrematureEnd ==
    LET b == response.bytes
    IN  (response.body = "stream" /\ Len(b) >= HeaderLen /\ b[1] = DATA)
        => /\ inv[1].out # <<>> =>
                 /\ ~DeclaresHuge(b)
                 /\ inv[1].out[1].type = DATA
                 /\ Len(inv[1].out[1].data) = DeclaredLength(b)
           /\ (DeclaresHuge(b) \/ Len(b) < HeaderLen + DeclaredLength(b)) =>
                 /\ inv[1].out = <<>>
                 /\ (inv[1].err # <<>> /\ ~aborted) => inv[1].err = PrematureEnd
                 /\ \A m \in Positions("onMessage") : log[m].h # 1

\* the first non-empty result of a list of extractor results
RECURSIVE FirstNonEmpty(_)
FirstNonEmpty(results) ==
    IF results = <<>> THEN <<>>
    ELSE IF results[1] # <<>> THEN results[1]
    ELSE FirstNonEmpty(Tail(results))

\* C9: when an extractor finds an error at response-header arrival, the
\* on-close after on-header carries the first non-empty result of binary
\* details, textual grpc-status, HTTP status; the on-close after on-trailer
\* carries the first non-empty result of binary details, textual
\* grpc-status on the trailer.  Details with a non-Ok code decide the code
\* and the message whatever grpc-status and the HTTP status say.
DetailsDecide(headers, error) ==
    LET bin == headersGet(headers, GrpcStatusDetailsBin)
        status == parseBinaryHeader(bin[1])
    IN  (bin # <<>> /\ status # <<>> /\ status[1].code # Ok)
        => /\ error # <<>>
           /\ error[1].code = status[1].code
           /\ error[1].arg = status[1].message

C9_Precedence ==
    /\ \A k \in Positions("onHeader") :
          LET e == FirstNonEmpty(<< extractDetailsError(response.headers),
                                    extractHeadersError(response.headers),
                                    extractHttpStatusError(response.status,
                                                           response.headers) >>)
          IN  e # <<>> =>
                 /\ k < Len(log)
                 /\ log[k + 1] = onClose(log[k].h, e)
                 /\ DetailsDecide(response.headers, log[k + 1].error)
    /\ \A k \in Positions("onTrailer") :
          LET t == log[k].headers
              e == FirstNonEmpty(<< extractDetailsError(t),
                                    extractHeadersError(t) >>)
          IN  /\ k < Len(log)
              /\ log[k + 1] = onClose(log[k].h, e)
              /\ DetailsDecide(t, log[k + 1].error)

\* HTTP 401 with grpc-status 2 and details of code 7: the on-close says 7
C9_Witness ==
    /\ response.status = 401
    /\ headersGet(response.headers, GrpcStatus) = << << 50 >> >>
    /\ \E k \in Positions("onClose") :
          log[k].error # <<>> /\ log[k].error[1].code = PermissionDenied

TrailerDelivered(i) ==
    /\ inv[i].pc = "awaitFrame"
    /\ inv[i].out # <<>>
    /\ inv[i].out[1].type = TRAILER
    /\ inv'[i].pc = "done"

\* C11 as stated: every TRAILER frame read is answered with on-trailer
\* carrying the parsed trailer map and then on-close carrying the error
\* extracted from that map, in one step.
C11_TrailerThenClose ==
    [][\A i \in Invocations :
          TrailerDelivered(i) =>
              LET t == parseTrailerFrame(inv[i].out[1].data).headers
              IN  log' = log \o << onTrailer(i, t),
                                   onClose(i, FirstNonEmpty(
                                       << extractDetailsError(t),
                                          extractHeadersError(t) >>)) >>]_vars

\* C11, amended: a TRAILER frame whose payload parseTrailerFrame accepts is
\* answered in one step with on-trailer carrying the parsed map and then
\* on-close carrying the error extracted from it; a payload with a line
\* headers.append refuses is answered with on-close alone, carrying that
\* exception.  A body that starts with a TRAILER frame delivers no
\* on-message, and its first receive() ends with on-header, on-trailer,
\* on-close (on-header, on-close when the payload is refused).
C11_TrailerParsedThenClose ==
    /\ [][\A i \in Invocations :
            TrailerDelivered(i) =>
                LET p == parseTrailerFrame(inv[i].out[1].data)
                    t == p.headers
                IN  IF p.ok
                    THEN log' = log \o << onTrailer(i, t),
                                          onClose(i, FirstNonEmpty(
                                              << extractDetailsError(t),
                                                 extractHeadersError(t) >>)) >>
                    ELSE /\ Len(log') = Len(log) + 1
                         /\ IsClose(log'[Len(log')], "TypeError")
                         /\ log'[Len(log')].h = i]_vars
    /\ [](\A i \in Invocations :
            (response.body = "stream" /\ response.bytes # <<>>
                /\ response.bytes[1] = TRAILER)
            => /\ Positions("onMessage") = {}
               /\ (inv[i].pc = "done" /\ Positions("onTrailer") # {}
                     /\ CallbacksOf(i) # <<>> /\ CallbacksOf(i)[1].cb = "onHeader")
                  => /\ Len(CallbacksOf(i)) = 3
                     /\ CallbacksOf(i)[2].cb = "onTrailer"
                     /\ CallbacksOf(i)[3].cb = "onClose")

\* a body that is one TRAILER frame with grpc-status 5: on-header,
\* on-trailer, on-close(code 5) and no on-message
C11_Witness ==
    /\ response.bytes # <<>>
    /\ response.bytes[1] = TRAILER
    /\ Len(Delivered) = 3
    /\ Delivered[1].cb = "onHeader"
    /\ Delivered[2].cb = "onTrailer"
    /\ Delivered[2].headers # <<>>
    /\ Delivered[3].cb = "onClose"
    /\ Delivered[3].error # <<>>
    /\ Delivered[3].error[1].code = 5

AbortText == "AbortError"

\* the abort signal has fired during the call
AbortFired == aborted \/ rejection = AbortText

\* nothing of the call is left to run without a new receive()
Settled ==
    /\ waiters = <<>>
    /\ reads = <<>>
    /\ \A i \in Invocations : inv[i].pc \in {"idle", "done"}

AbortReaches(i) ==
    /\ inv'[i].pc = "done"
    /\ \/ inv[i].pc = "awaitResponse" /\ rejection = AbortText
       \/ inv[i].pc = "awaitFrame" /\ inv[i].err = stringError(AbortText)

IsDecimal(v) == v # <<>> /\ \A k \in 1..Len(v) : v[k] \in 48..57

Recognized(v) == IsDecimal(v) /\ isStatusCode(digitsValue(v, 10, 0))

\* C13: for every header or trailer map delivered, a grpc-status value that
\* is not a recognized StatusCode makes the textual extractor return
\* DataLoss reporting that value, and the on-close that follows carries this
\* error; without grpc-status, or with a value equal to Ok, the extractor
\* returns no error.
C13_InvalidStatusIsDataLoss ==
    \A k \in Positions("onHeader") \cup Positions("onTrailer") :
        LET value == headersGet(log[k].headers, GrpcStatus)
            err == extractHeadersError(log[k].headers)
        IN  IF value = <<>> THEN err = <<>>
            ELSE IF ~Recognized(value[1])
            THEN /\ err = << ConnectError("invalid grpc-status: ", value[1],
                                          DataLoss) >>
                 /\ k < Len(log)
                 /\ log[k + 1] = onClose(log[k].h, err)
            ELSE digitsValue(value[1], 10, 0) = Ok => err = <<>>

\* C14: whenever on-close is delivered with no error, an on-message has been
\* delivered earlier on the same ClientResponse.
C14_CleanCloseHasMessage ==
    \A k \in Positions("onClose") :
        log[k].error = <<>> => \E m \in Positions("onMessage") : m < k

\* C15: for every 5-byte DATA header in the accumulator, the parsed length
\* is the unsigned 32-bit big-endian value of bytes 1..4 (compared in two
\* 16-bit halves: the upper half is bytes 1 and 2, the lower half bytes 3
\* and 4), hence never negative, also with the top bit of byte 1 set.
C15_LengthIsUnsigned ==
    (Len(buffer) >= HeaderLen /\ buffer[1] = DATA) =>
        LET L == parseLength(buffer)
        IN  /\ L >= 0
            /\ L \div Pow2(16) = buffer[2] * 256 + buffer[3]
            /\ L % Pow2(16) = buffer[4] * 256 + buffer[5]

\* the bytes of the stream taken by the DATA frames delivered so far: each
\* took its header and its payload
RECURSIVE TakenBy(_)
TakenBy(cbs) ==
    IF cbs = <<>> THEN 0
    ELSE (IF cbs[1].cb = "onMessage" THEN HeaderLen + Len(cbs[1].data) ELSE 0)
         + TakenBy(Tail(cbs))

\* readFrame() of invocation i has returned a TRAILER frame
TrailerRead(i) ==
    /\ inv[i].pc = "awaitFrame"
    /\ inv[i].out # <<>>
    /\ inv[i].out[1].type = TRAILER

\* C16: when receive() invocations follow one another, a TRAILER frame is
\* returned only when the stream is done; its payload is every byte of the
\* stream from offset 5 of the frame to the end of the stream, whatever the
\* length field says, and the accumulator is empty afterwards.
C16_TrailerTakesRest ==
    \A i \in Invocations :
        TrailerRead(i) =>
            LET start == TakenBy(Delivered)
            IN  /\ rest = <<>>
                /\ inv[i].out[1].data =
                       SubSeq(response.bytes, start + HeaderLen + 1,
                              Len(response.bytes))
                /\ buffer = <<>>

\* a TRAILER frame whose payload is longer than its length field says has
\* been returned
C16_Witness ==
    \E i \in Invocations :
        /\ TrailerRead(i)
        /\ Len(response.bytes) > HeaderLen
        /\ Len(inv[i].out[1].data) > response.bytes[HeaderLen]
        /\ response.bytes[1] = TRAILER

\* the positions of the on-message callbacks that ended their receive():
\* the handler returned and the invocation delivered nothing after it
MessageEnds ==
    { k \in Positions("onMessage") :
        /\ inv[log[k].h].pc = "done"
        /\ Last(CallbacksOf(log[k].h)).cb = "onMessage" }

\* C17: each receive() invocation delivers at most one of on-message and
\* on-trailer; after a receive() that delivered on-message, no on-trailer and
\* no on-close is delivered until receive() is invoked again, and on-header
\* is not delivered a second time.
C17_OneFramePerReceive ==
    /\ \A i \in Invocations :
          Len(SelectSeq(CallbacksOf(i),
                        LAMBDA e : e.cb \in {"onMessage", "onTrailer"})) <= 1
    /\ \A k \in MessageEnds :
          \A j \in (k + 1)..Len(log) :
              /\ log[j].cb \in {"onTrailer", "onClose"}
                    => \E r \in (k + 1)..(j - 1) : log[r].cb = "receive"
              /\ log[j].cb # "onHeader"

\* readFrame() of invocation i awaits a chunk with an accumulator whose
\* first byte is neither DATA nor TRAILER
Unframed(i) ==
    /\ inv[i].pc = "awaitRead"
    /\ inv[i].at = "readFrame"
    /\ buffer # <<>>
    /\ buffer[1] \notin {DATA, TRAILER}

\* readFrame() of invocation i has failed
ReadFailed(i) ==
    /\ inv[i].pc = "awaitFrame"
    /\ inv[i].out = <<>>
    /\ inv[i].err # <<>>

\* C18: with a first byte in the accumulator that is neither 0x00 nor 0x80,
\* readFrame() returns no frame: every step leaves it reading, or fails it
\* with DataLoss "premature end of response body" when the stream is done
\* (with the rejection of the read when the call was aborted); a body that
\* starts with such a byte delivers neither on-message nor on-trailer; and
\* the readFrame() call comes to its end.
C18_UnknownFirstByte ==
    /\ [][\A i \in Invocations :
            Unframed(i) =>
                \/ Unframed(i)'
                \/ /\ ReadFailed(i)'
                   /\ inv'[i].err = IF aborted THEN stringError(AbortText)
                                    ELSE PrematureEnd
                   /\ ~aborted => rest = <<>>]_vars
    /\ []((response.bytes # <<>> /\ response.bytes[1] \notin {DATA, TRAILER})
            => /\ Positions("onMessage") \cup Positions("onTrailer") = {}
               /\ \A i \in Invocations : inv[i].out = <<>>)
    /\ \A i \in Invocations : Unframed(i) ~> ReadFailed(i)

\* a body of several bytes that starts with the byte 01 has been read to its
\* end and the call was closed with "premature end of response body"
C18_Witness ==
    /\ Len(response.bytes) >= 2
    /\ response.bytes[1] \notin {DATA, TRAILER}
    /\ rest = <<>>
    /\ ~aborted
    /\ log # <<>>
    /\ Last(log) = onClose(1, PrematureEnd)

\* the trailer map carries neither grpc-status nor grpc-status-details-bin
NoStatus(headers) ==
    /\ headersGet(headers, GrpcStatus) = <<>>
    /\ headersGet(headers, GrpcStatusDetailsBin) = <<>>

\* the on-close that follows the on-trailer at position k
CloseAfter(k) == IF k < Len(log) THEN << log[k + 1] >> ELSE <<>>

\* C19 as stated: a trailer map with neither grpc-status nor
\* grpc-status-details-bin closes the call with no error, and no TRAILER
\* frame closes the call with DataLoss.
C19_TrailerNeverDataLoss ==
    \A k \in Positions("onTrailer") :
        /\ CloseAfter(k) # <<>>
        /\ NoStatus(log[k].headers)
              => CloseAfter(k)[1] = onClose(log[k].h, <<>>)
        /\ \/ CloseAfter(k)[1].error = <<>>
           \/ CloseAfter(k)[1].error[1].code # DataLoss

\* C19, amended: a trailer map with neither grpc-status nor
\* grpc-status-details-bin closes the call with no error; the reading of a
\* TRAILER frame never fails with "premature end of response body": once the
\* first byte 0x80 is seen the read ends with the frame, or with the
\* rejection of an aborted read.  DataLoss after on-trailer comes from the
\* trailer map alone, that is from its grpc-status or its details.
C19_TrailerReadNeverPremature ==
    /\ [](\A k \in Positions("onTrailer") :
            /\ CloseAfter(k) # <<>>
            /\ NoStatus(log[k].headers)
                  => CloseAfter(k)[1] = onClose(log[k].h, <<>>)
            /\ CloseAfter(k)[1].error \in
                  { extractDetailsError(log[k].headers),
                    extractHeadersError(log[k].headers) })
    /\ [][\A i \in Invocations :
            (inv[i].pc = "awaitRead" /\ inv[i].at = "readTrailerFrame") =>
                \/ inv'[i].pc = "awaitRead" /\ inv'[i].at = "readTrailerFrame"
                \/ /\ inv'[i].pc = "awaitFrame"
                   /\ IF aborted
                      THEN inv'[i].err = stringError(AbortText)
                      ELSE /\ inv'[i].err = <<>>
                           /\ inv'[i].out # <<>>
                           /\ inv'[i].out[1].type = TRAILER]_vars

\* a body of the single byte 0x80 was read as a TRAILER frame with an empty
\* map and the call closed with no error
C19_Witness ==
    /\ response.bytes # <<>>
    /\ Len(response.bytes) <= HeaderLen
    /\ response.bytes[1] = TRAILER
    /\ Len(log) >= 2
    /\ log[Len(log) - 1] = onTrailer(1, <<>>)
    /\ Last(log) = onClose(1, <<>>)

DeserializeText == "failed to deserialize message "

\* C20: once a DATA frame has failed (deserialization or on-message threw)
\* and the call was closed with "failed to deserialize message <type>: ...",
\* the response is CLOSED: no frame is delivered afterwards, and every
\* receive() made afterwards is answered with "response already read".
C20_DeserializeFailureCloses ==
    \A k \in Positions("onClose") :
        IsClose(log[k], DeserializeText) =>
            /\ isRead
            /\ \A j \in (k + 1)..Len(log) :
                  /\ log[j].cb \in {"receive", "onClose"}
                  /\ log[j].cb = "receive" =>
                        /\ j < Len(log)
                        /\ log[j + 1].h = log[j].h
                        /\ IsClose(log[j + 1], AlreadyReadText)

====
